---- MODULE Spec2Model ----
(***************************************************************************)
(* Search-space layer of baybe (src/baybe/searchspace.py): the discrete    *)
(* subspace with its experimental representation, computational            *)
(* representation and metadata, the continuous subspace, and the           *)
(* SearchSpace that composes them.                                         *)
(*                                                                         *)
(* A data frame is a record [cols, rows]: cols is the sequence of column   *)
(* names, rows the sequence of [idx, vals] with idx the row's index label  *)
(* and vals a function from column name to value.  Numbers are integers;   *)
(* numeric discrete values and tolerances are scaled to integers.          *)
(***************************************************************************)
EXTENDS Integers, Sequences, FiniteSets, TLC

VARIABLES
    phase,           \* "new", "discrete", "searchspace" or "error"
    in_parameters,   \* the parameters argument of create (names)
    in_constraints,  \* the constraints argument of create (ids)
    empty_encoding,  \* the empty_encoding argument / attribute
    parameters,      \* SearchSpace.parameters
    d_parameters,    \* SubspaceDiscrete.parameters
    c_parameters,    \* SubspaceContinuous.parameters
    exp_rep,         \* SubspaceDiscrete.exp_rep
    comp_rep,        \* SubspaceDiscrete.comp_rep
    metadata,        \* SubspaceDiscrete.metadata
    ret,             \* what the last call returned or raised
    marked           \* history: index labels mark_as_measured has flagged

vars == <<phase, in_parameters, in_constraints, empty_encoding, parameters,
          d_parameters, c_parameters, exp_rep, comp_rep, metadata, ret, marked>>

-----------------------------------------------------------------------------
(* Sequences and sets *)

SeqRange(s) == {s[i] : i \in DOMAIN s}

IndexOf(s, x) == CHOOSE i \in DOMAIN s : s[i] = x

RECURSIVE SetSum(_, _)
SetSum(f, S) ==
    IF S = {} THEN 0
    ELSE LET x == CHOOSE y \in S : TRUE IN f[x] + SetSum(f, S \ {x})

SetMin(S) == CHOOSE x \in S : \A y \in S : x <= y

SetMax(S) == CHOOSE x \in S : \A y \in S : x >= y

Abs(x) == IF x < 0 THEN -x ELSE x

\* All sequences without repetition over S of length at most n.
RECURSIVE DistinctSeqs(_, _)
DistinctSeqs(S, n) ==
    IF n = 0 THEN {<<>>}
    ELSE LET shorter == DistinctSeqs(S, n - 1)
             longest == {t \in shorter : Len(t) = n - 1}
         IN shorter \cup UNION {{Append(t, x) : x \in S \ SeqRange(t)} : t \in longest}

-----------------------------------------------------------------------------
(* Parameters.  A parameter list is a sequence of names; Param gives the   *)
(* immutable parameter object of a name.                                   *)

\* float("inf") in a bound, as an integer beyond every finite bound.
Inf == 1000000

Param(name) ==
    CASE name = "A_disc" -> [name |-> "A_disc", is_discrete |-> TRUE, is_numeric |-> TRUE,
                             values |-> <<1, 2, 3>>, tolerance |-> 0, encoding |-> "NONE"]
      [] name = "B_disc" -> [name |-> "B_disc", is_discrete |-> TRUE, is_numeric |-> TRUE,
                             values |-> <<7, 8, 9>>, tolerance |-> 0, encoding |-> "NONE"]
      [] name = "A_cont" -> [name |-> "A_cont", is_discrete |-> FALSE, is_numeric |-> TRUE,
                             bounds |-> <<4, 6>>]
      [] name = "B_cont" -> [name |-> "B_cont", is_discrete |-> FALSE, is_numeric |-> TRUE,
                             bounds |-> <<10, 12>>]
      [] name = "C_cont" -> [name |-> "C_cont", is_discrete |-> FALSE, is_numeric |-> TRUE,
                             bounds |-> <<0, Inf>>]
      [] name = "Categorical_1" -> [name |-> "Categorical_1", is_discrete |-> TRUE,
                             is_numeric |-> FALSE, values |-> <<"A", "B">>,
                             encoding |-> "OHE"]
      [] name = "Num_disc_1" -> [name |-> "Num_disc_1", is_discrete |-> TRUE,
                             is_numeric |-> TRUE, values |-> <<10, 20>>,
                             tolerance |-> 3, encoding |-> "NONE"]

\* Parameter.is_in_range
is_in_range(p, item) ==
    IF p.is_numeric
    THEN \E i \in DOMAIN p.values : Abs(p.values[i] - item) <= p.tolerance
    ELSE item \in SeqRange(p.values)

\* Names of the columns of Parameter.comp_df, in order.
comp_df_columns(p) ==
    IF p.is_numeric THEN <<p.name>>
    ELSE IF p.encoding = "OHE"
         THEN [i \in DOMAIN p.values |-> p.name \o "_" \o p.values[i]]
         ELSE <<p.name>>

\* Parameter.comp_df[col] at the row of experimental value v.
comp_df_value(p, col, v) ==
    IF p.is_numeric THEN v
    ELSE IF p.encoding = "OHE"
         THEN (IF col = p.name \o "_" \o v THEN 1 ELSE 0)
         ELSE IndexOf(p.values, v) - 1

\* The values of column col of Parameter.comp_df.
comp_df_column(p, col) == {comp_df_value(p, col, p.values[i]) : i \in DOMAIN p.values}

-----------------------------------------------------------------------------
(* Data frames *)

EmptyFrame == [cols |-> <<>>, rows |-> <<>>]

Index(df) == [i \in DOMAIN df.rows |-> df.rows[i].idx]

NoVals == [c \in {} |-> 0]

\* pd.DataFrame(index=df.index)
IndexOnlyFrame(df) ==
    [cols |-> <<>>, rows |-> [i \in DOMAIN df.rows |-> [idx |-> df.rows[i].idx, vals |-> NoVals]]]

\* df.reset_index(drop=True)
reset_index(df) ==
    [cols |-> df.cols,
     rows |-> [i \in DOMAIN df.rows |-> [idx |-> i - 1, vals |-> df.rows[i].vals]]]

\* df.drop(index=inds): the rows whose label is not in inds.
drop_index(df, inds) ==
    LET Keep(r) == r.idx \notin inds
    IN [cols |-> df.cols, rows |-> SelectSeq(df.rows, Keep)]

\* df[cols]: column selection.
select_columns(df, cols) ==
    [cols |-> cols,
     rows |-> [i \in DOMAIN df.rows |->
                 [idx |-> df.rows[i].idx,
                  vals |-> [c \in SeqRange(cols) |-> df.rows[i].vals[c]]]]]

\* The value tuples of the product of the domains, first parameter slowest.
RECURSIVE ProductTuples(_)
ProductTuples(names) ==
    IF names = <<>> THEN << <<>> >>
    ELSE LET vs   == Param(Head(names)).values
             rest == ProductTuples(Tail(names))
             n    == Len(rest)
         IN [k \in 1..(Len(vs) * n) |->
                <<vs[((k - 1) \div n) + 1]>> \o rest[((k - 1) % n) + 1]]

\* parameters.parameter_cartesian_prod_to_df
parameter_cartesian_prod_to_df(names) ==
    IF Len(names) < 1 THEN EmptyFrame
    ELSE LET tuples == ProductTuples(names) IN
         [cols |-> names,
          rows |-> [k \in DOMAIN tuples |->
                      [idx |-> k - 1,
                       vals |-> [c \in SeqRange(names) |-> tuples[k][IndexOf(names, c)]]]]]

\* utils.df_drop_single_value_columns
df_drop_single_value_columns(df) ==
    LET Varies(c) == Cardinality({df.rows[i].vals[c] : i \in DOMAIN df.rows}) > 1
    IN select_columns(df, SelectSeq(df.cols, Varies))

-----------------------------------------------------------------------------
(* Constraints.  A constraint list is a sequence of ids; Constraint gives  *)
(* the constraint object of an id.                                         *)

Constraint(id) ==
    CASE id = "Sum" ->
           [type |-> "SUM", parameters |-> <<"A_disc", "B_disc">>,
            eval_during_creation |-> TRUE, threshold |-> 10]
      [] id = "Excl" ->
           [type |-> "EXCLUDE", parameters |-> <<"Categorical_1", "Num_disc_1">>,
            eval_during_creation |-> TRUE,
            selection |-> [Categorical_1 |-> {"B"}, Num_disc_1 |-> {10}]]
      [] id = "Dep" ->
           [type |-> "DEPENDENCIES", parameters |-> <<"Categorical_1">>,
            eval_during_creation |-> TRUE,
            selection |-> [Categorical_1 |-> {"A"}],
            affected_parameters |-> <<"Num_disc_1">>]
      [] id = "Excl10" ->
           [type |-> "EXCLUDE", parameters |-> <<"Num_disc_1">>,
            eval_during_creation |-> TRUE,
            selection |-> [Num_disc_1 |-> {10}]]
      [] id = "ExclB" ->
           [type |-> "EXCLUDE", parameters |-> <<"Categorical_1">>,
            eval_during_creation |-> TRUE,
            selection |-> [Categorical_1 |-> {"B"}]]
      [] id = "Sum_e7" ->
           [type |-> "SUM", parameters |-> <<"A_disc", "e7">>,
            eval_during_creation |-> TRUE, threshold |-> 10]
      [] id = "Perm_e7" ->
           [type |-> "PERMUTATION_INVARIANCE", parameters |-> <<"A_disc", "e7">>,
            eval_during_creation |-> FALSE]
      [] id = "ContLin_e7" ->
           [type |-> "CONT_LINEAR", parameters |-> <<"A_cont", "e7">>,
            eval_during_creation |-> FALSE]

\* constraints._constraints_order
constraints_order ==
    <<"EXCLUDE", "SUM", "PERMUTATION_INVARIANCE", "DEPENDENCIES", "CONT_LINEAR">>

\* Are rows r1 and r2 of df equal once the affected columns are blanked in the
\* rows where the dependency's condition does not hold?
DependencyEqual(c, df, r1, r2) ==
    LET on(r) == \A q \in SeqRange(c.parameters) : r.vals[q] \in c.selection[q]
        blank(r, col) == col \in SeqRange(c.affected_parameters) /\ ~on(r)
    IN \A col \in SeqRange(df.cols) :
          \/ blank(r1, col) /\ blank(r2, col)
          \/ ~blank(r1, col) /\ ~blank(r2, col) /\ r1.vals[col] = r2.vals[col]

\* Constraint.get_invalid of the constraints evaluated during creation: the
\* index labels of the rows of df the constraint rejects; a parameter that is
\* no column of df is a KeyError.
get_invalid(c, df) ==
    IF ~(SeqRange(c.parameters) \subseteq SeqRange(df.cols))
       \/ (c.type = "DEPENDENCIES"
           /\ ~(SeqRange(c.affected_parameters) \subseteq SeqRange(df.cols)))
    THEN [ok |-> FALSE, err |-> "KeyError"]
    ELSE LET bad(i) ==
               LET r == df.rows[i] IN
               CASE c.type = "SUM" ->
                      SetSum(r.vals, SeqRange(c.parameters)) > c.threshold
                 [] c.type = "EXCLUDE" ->
                      \A q \in SeqRange(c.parameters) : r.vals[q] \in c.selection[q]
                 [] c.type = "DEPENDENCIES" ->
                      \E j \in 1..(i - 1) : DependencyEqual(c, df, df.rows[j], r)
         IN [ok |-> TRUE, inds |-> {df.rows[i].idx : i \in {k \in DOMAIN df.rows : bad(k)}}]

\* sorted(constraints, key=lambda x: _constraints_order.index(x.type)): a stable
\* sort of the ids by the position of their type.
RECURSIVE sorted_constraints(_)
sorted_constraints(ids) ==
    IF ids = <<>> THEN <<>>
    ELSE LET key(id) == IndexOf(constraints_order, Constraint(id).type)
             m    == SetMin({key(ids[i]) : i \in DOMAIN ids})
             k    == SetMin({i \in DOMAIN ids : key(ids[i]) = m})
             rest == [i \in 1..(Len(ids) - 1) |-> IF i < k THEN ids[i] ELSE ids[i + 1]]
         IN <<ids[k]>> \o sorted_constraints(rest)

-----------------------------------------------------------------------------
(* SubspaceDiscrete *)

Unset == [cols |-> <<"<unset>">>, rows |-> <<>>]

\* The columns of the parameters' comp_df frames, in parameter order.
RECURSIVE all_comp_columns(_)
all_comp_columns(names) ==
    IF names = <<>> THEN <<>>
    ELSE comp_df_columns(Param(Head(names))) \o all_comp_columns(Tail(names))

\* The parameter among names whose comp_df has column col.
column_owner(names, col) ==
    Param(CHOOSE n \in SeqRange(names) : col \in SeqRange(comp_df_columns(Param(n))))

\* Parameter.transform_rep_exp2comp applied to data[param.name] for every
\* parameter, and pd.concat(dfs, axis=1): one row per row of data, same index.
encode_parameters(names, data) ==
    LET cols == all_comp_columns(names) IN
    [cols |-> cols,
     rows |-> [i \in DOMAIN data.rows |->
                 [idx |-> data.rows[i].idx,
                  vals |-> [c \in SeqRange(cols) |->
                              LET p == column_owner(names, c)
                              IN comp_df_value(p, c, data.rows[i].vals[p.name])]]]]

\* transform with the bug of returning pd.DataFrame() without the index of data
\* in the empty-encoding branch.
transform_drops_index(names, ee, frozen, data) ==
    IF ee \/ Len(data.rows) < 1
    THEN [ok |-> TRUE, df |-> EmptyFrame]
    ELSE IF ~(SeqRange(names) \subseteq SeqRange(data.cols))
    THEN [ok |-> FALSE, err |-> "KeyError"]
    ELSE LET comp == IF names # <<>> THEN encode_parameters(names, data) ELSE EmptyFrame
         IN IF frozen.cols = Unset.cols THEN [ok |-> TRUE, df |-> comp]
            ELSE IF SeqRange(frozen.cols) \subseteq SeqRange(comp.cols)
            THEN [ok |-> TRUE, df |-> select_columns(comp, frozen.cols)]
            ELSE [ok |-> FALSE, err |-> "KeyError"]

\* transform with the bug of skipping the selection of the columns of
\* self.comp_rep: every encoded column is returned.
transform_all_encoded_columns(names, ee, frozen, data) ==
    IF ee \/ Len(data.rows) < 1
    THEN [ok |-> TRUE, df |-> IndexOnlyFrame(data)]
    ELSE IF ~(SeqRange(names) \subseteq SeqRange(data.cols))
    THEN [ok |-> FALSE, err |-> "KeyError"]
    ELSE [ok |-> TRUE,
          df |-> IF names # <<>> THEN encode_parameters(names, data) ELSE EmptyFrame]

\* transform with the bug of testing only len(data) < 1 in the early return, so
\* that empty_encoding is ignored.
transform_ignores_empty_encoding(names, ee, frozen, data) ==
    IF Len(data.rows) < 1
    THEN [ok |-> TRUE, df |-> IndexOnlyFrame(data)]
    ELSE IF ~(SeqRange(names) \subseteq SeqRange(data.cols))
    THEN [ok |-> FALSE, err |-> "KeyError"]
    ELSE LET comp == IF names # <<>> THEN encode_parameters(names, data) ELSE EmptyFrame
         IN IF frozen.cols = Unset.cols THEN [ok |-> TRUE, df |-> comp]
            ELSE IF SeqRange(frozen.cols) \subseteq SeqRange(comp.cols)
            THEN [ok |-> TRUE, df |-> select_columns(comp, frozen.cols)]
            ELSE [ok |-> FALSE, err |-> "KeyError"]

\* SubspaceDiscrete.transform; frozen is self.comp_rep, Unset while the object
\* is being initialised.
transform(names, ee, frozen, data) ==
    IF ee \/ Len(data.rows) < 1
    THEN [ok |-> TRUE, df |-> IndexOnlyFrame(data)]
    ELSE IF ~(SeqRange(names) \subseteq SeqRange(data.cols))
    THEN [ok |-> FALSE, err |-> "KeyError"]
    ELSE LET comp == IF names # <<>> THEN encode_parameters(names, data) ELSE EmptyFrame
         IN IF frozen.cols = Unset.cols THEN [ok |-> TRUE, df |-> comp]
            ELSE IF SeqRange(frozen.cols) \subseteq SeqRange(comp.cols)
            THEN [ok |-> TRUE, df |-> select_columns(comp, frozen.cols)]
            ELSE [ok |-> FALSE, err |-> "KeyError"]

MetadataColumns == <<"was_recommended", "was_measured", "dont_recommend">>

\* The metadata frame of __attrs_post_init__: every flag False, index of exp.
initial_metadata(exp) ==
    [cols |-> MetadataColumns,
     rows |-> [i \in DOMAIN exp.rows |->
                 [idx |-> exp.rows[i].idx,
                  vals |-> [c \in SeqRange(MetadataColumns) |-> FALSE]]]]

\* SubspaceDiscrete(parameters, exp_rep, empty_encoding) with its
\* __attrs_post_init__.
SubspaceDiscreteInit(names, exp, ee) ==
    LET t == transform(names, ee, Unset, exp) IN
    IF ~t.ok THEN [ok |-> FALSE, err |-> t.err]
    ELSE [ok |-> TRUE, parameters |-> names, exp_rep |-> exp,
          comp_rep |-> df_drop_single_value_columns(t.df),
          metadata |-> initial_metadata(exp), empty_encoding |-> ee]

\* One pass of the loop of create: drop the rows the constraint rejects.
apply_constraint(id, df) ==
    LET inv == get_invalid(Constraint(id), df) IN
    IF ~inv.ok THEN [ok |-> FALSE, err |-> inv.err]
    ELSE [ok |-> TRUE, df |-> drop_index(df, inv.inds)]

\* The loop of create with the bug of evaluating every constraint on the full
\* product instead of on the rows that survived the earlier constraints.
apply_constraints_on_product(ids, df) ==
    LET Eval(id) == Constraint(id).eval_during_creation
        evaluated == SelectSeq(ids, Eval)
        inv == [i \in DOMAIN evaluated |-> get_invalid(Constraint(evaluated[i]), df)]
    IN IF \E i \in DOMAIN inv : ~inv[i].ok THEN [ok |-> FALSE, err |-> "KeyError"]
       ELSE [ok |-> TRUE, df |-> drop_index(df, UNION {inv[i].inds : i \in DOMAIN inv})]

\* The loop of create over the constraints evaluated during creation.
RECURSIVE apply_constraints(_, _)
apply_constraints(ids, df) ==
    IF ids = <<>> THEN [ok |-> TRUE, df |-> df]
    ELSE IF ~Constraint(Head(ids)).eval_during_creation
    THEN apply_constraints(Tail(ids), df)
    ELSE LET one == apply_constraint(Head(ids), df) IN
         IF ~one.ok THEN one ELSE apply_constraints(Tail(ids), one.df)

\* SubspaceDiscrete.create
SubspaceDiscreteCreate(names, cons, ee) ==
    LET filtered == apply_constraints(sorted_constraints(cons),
                                      parameter_cartesian_prod_to_df(names))
    IN IF ~filtered.ok THEN [ok |-> FALSE, err |-> filtered.err]
       ELSE SubspaceDiscreteInit(names, reset_index(filtered.df), ee)

\* SubspaceDiscrete.empty and SubspaceContinuous.empty
empty(names) == Len(names) = 0

\* SubspaceDiscrete.param_bounds_comp: the tensor <<minima, maxima>>, or the
\* ValueError np.hstack raises on an empty list.
discrete_param_bounds_comp(names, comp) ==
    IF names = <<>> THEN [ok |-> TRUE, bounds |-> << <<>>, <<>> >>]
    ELSE LET In(col) == col \in SeqRange(comp.cols)
             cols == SelectSeq(all_comp_columns(names), In)
             vs(k) == comp_df_column(column_owner(names, cols[k]), cols[k])
         IN IF cols = <<>> THEN [ok |-> FALSE, err |-> "ValueError"]
            ELSE [ok |-> TRUE,
                  bounds |-> <<[k \in DOMAIN cols |-> SetMin(vs(k))],
                               [k \in DOMAIN cols |-> SetMax(vs(k))]>>]

\* is_match with the bug of leaving out the comparison of the categorical
\* columns.
is_match_numeric_only(names, exp, r, m) ==
    LET IsNum(n) == Param(n).is_numeric /\ Param(n).is_discrete
        abs_diff(n, x) == Abs(x.vals[n] - m.vals[n])
    IN \A n \in SeqRange(SelectSeq(names, IsNum)) :
          abs_diff(n, r) = SetMin({abs_diff(n, exp.rows[i]) : i \in DOMAIN exp.rows})

\* Is exp row r a match of measurement row m?  Categorical columns agree
\* exactly; on every numeric column the deviation is the smallest deviation
\* of the column over exp_rep.
is_match(names, exp, r, m) ==
    LET IsCat(n) == ~Param(n).is_numeric
        IsNum(n) == Param(n).is_numeric /\ Param(n).is_discrete
        abs_diff(n, x) == Abs(x.vals[n] - m.vals[n])
    IN /\ \A n \in SeqRange(SelectSeq(names, IsCat)) : r.vals[n] = m.vals[n]
       /\ \A n \in SeqRange(SelectSeq(names, IsNum)) :
             abs_diff(n, r) = SetMin({abs_diff(n, exp.rows[i]) : i \in DOMAIN exp.rows})

\* first_invalid with the bug of checking numeric values whatever the flag.
RECURSIVE first_invalid_ignores_flag(_, _, _)
first_invalid_ignores_flag(names, m, tol) ==
    IF names = <<>> THEN ""
    ELSE LET p == Param(Head(names))
         IN IF ~is_in_range(p, m.vals[p.name]) THEN p.name
            ELSE first_invalid_ignores_flag(Tail(names), m, tol)

\* The validity check of one measurement row: the name of the first parameter
\* with an invalid value, or "" when the row is valid.
RECURSIVE first_invalid(_, _, _)
first_invalid(names, m, tol) ==
    IF names = <<>> THEN ""
    ELSE LET p == Param(Head(names))
             valid == IF p.is_numeric
                      THEN (IF tol THEN is_in_range(p, m.vals[p.name]) ELSE TRUE)
                      ELSE is_in_range(p, m.vals[p.name])
         IN IF ~valid THEN p.name ELSE first_invalid(Tail(names), m, tol)

\* row_matches with the bug of extending inds_matched by every index found.
row_matches_keeps_all(names, exp, m) ==
    LET Hit(r) == is_match(names, exp, r, m)
    IN Index([cols |-> exp.cols, rows |-> SelectSeq(exp.rows, Hit)])

\* row_matches with the bug of falling back to the first row of exp_rep when
\* nothing matches and there is no numeric column.
row_matches_defaults_to_first_row(names, exp, m) ==
    LET IsNum(n) == Param(n).is_numeric /\ Param(n).is_discrete
        num_cols == SelectSeq(names, IsNum)
        Hit(r) == is_match(names, exp, r, m)
        inds_found == Index([cols |-> exp.cols, rows |-> SelectSeq(exp.rows, Hit)])
    IN IF Len(inds_found) = 0 /\ Len(num_cols) > 0 THEN <<>>
       ELSE IF Len(inds_found) > 1 THEN <<inds_found[1]>>
       ELSE IF Len(inds_found) = 0 /\ Len(exp.rows) > 0 THEN <<exp.rows[1].idx>>
       ELSE inds_found

\* The indices one valid measurement row contributes to inds_matched.
row_matches(names, exp, m) ==
    LET IsNum(n) == Param(n).is_numeric /\ Param(n).is_discrete
        num_cols == SelectSeq(names, IsNum)
        Hit(r) == is_match(names, exp, r, m)
        inds_found == Index([cols |-> exp.cols, rows |-> SelectSeq(exp.rows, Hit)])
    IN IF Len(inds_found) = 0 /\ Len(num_cols) > 0 THEN <<>>
       ELSE IF Len(inds_found) > 1 THEN <<inds_found[1]>>
       ELSE inds_found

\* The loop of _match_measurement_with_searchspace_indices over the rows of df.
RECURSIVE match_rows(_, _, _, _)
match_rows(names, exp, rows, tol) ==
    IF rows = <<>> THEN [ok |-> TRUE, inds |-> <<>>]
    ELSE IF first_invalid(names, Head(rows), tol) # ""
    THEN [ok |-> FALSE, err |-> "ValueError"]
    ELSE LET rest == match_rows(names, exp, Tail(rows), tol) IN
         IF ~rest.ok THEN rest
         ELSE [ok |-> TRUE, inds |-> row_matches(names, exp, Head(rows)) \o rest.inds]

\* _match_measurement_with_searchspace_indices with the bug of testing the
\* columns inside the loop over the rows, so that a frame without rows passes.
match_measurement_checks_columns_per_row(names, exp, df, tol) ==
    IF ~(SeqRange(exp.cols) \subseteq SeqRange(df.cols)) /\ df.rows # <<>>
    THEN [ok |-> FALSE, err |-> "ValueError"]
    ELSE match_rows(names, exp, df.rows, tol)

\* SubspaceDiscrete._match_measurement_with_searchspace_indices
match_measurement_with_searchspace_indices(names, exp, df, tol) ==
    IF ~(SeqRange(exp.cols) \subseteq SeqRange(df.cols))
    THEN [ok |-> FALSE, err |-> "ValueError"]
    ELSE match_rows(names, exp, df.rows, tol)

\* loc_set with the bug of assigning the whole row (md.loc[inds] = val): every
\* column of the selected rows takes the value.
loc_set_whole_row(md, inds, col, val) ==
    [cols |-> md.cols,
     rows |-> [i \in DOMAIN md.rows |->
                 IF md.rows[i].idx \in SeqRange(inds)
                 THEN [idx |-> md.rows[i].idx,
                       vals |-> [c \in DOMAIN md.rows[i].vals |-> val]]
                 ELSE md.rows[i]]]

\* loc_set with the bug of assigning the whole column (md[col] = index.isin(inds)
\* for val True), which clears the flag of every row outside inds.
loc_set_overwrite(md, inds, col, val) ==
    [cols |-> md.cols,
     rows |-> [i \in DOMAIN md.rows |->
                 [idx |-> md.rows[i].idx,
                  vals |-> [md.rows[i].vals EXCEPT
                              ![col] = IF md.rows[i].idx \in SeqRange(inds)
                                       THEN val ELSE ~val]]]]

\* md.loc[inds, col] = val
loc_set(md, inds, col, val) ==
    [cols |-> md.cols,
     rows |-> [i \in DOMAIN md.rows |->
                 IF md.rows[i].idx \in SeqRange(inds)
                 THEN [idx |-> md.rows[i].idx,
                       vals |-> [md.rows[i].vals EXCEPT ![col] = val]]
                 ELSE md.rows[i]]]

\* mark_as_measured with the bug of writing the was_recommended column.
mark_as_measured_wrong_column(names, exp, md, measurements, tol) ==
    LET m == match_measurement_with_searchspace_indices(names, exp, measurements, tol) IN
    IF ~m.ok THEN [ok |-> FALSE, err |-> m.err, metadata |-> md]
    ELSE [ok |-> TRUE, inds |-> m.inds,
          metadata |-> loc_set(md, m.inds, "was_recommended", TRUE)]

\* mark_as_measured with the bug of matching only against the rows that are
\* not yet marked as measured.
mark_as_measured_skips_measured(names, exp, md, measurements, tol) ==
    LET Fresh(r) == \A i \in DOMAIN md.rows :
                        md.rows[i].idx = r.idx => ~md.rows[i].vals["was_measured"]
        unmeasured == [cols |-> exp.cols, rows |-> SelectSeq(exp.rows, Fresh)]
        m == match_measurement_with_searchspace_indices(names, unmeasured, measurements, tol)
    IN IF ~m.ok THEN [ok |-> FALSE, err |-> m.err, metadata |-> md]
       ELSE [ok |-> TRUE, inds |-> m.inds,
             metadata |-> loc_set(md, m.inds, "was_measured", TRUE)]

\* The indices of the rows matched before the first invalid measurement row.
RECURSIVE matched_before_invalid(_, _, _, _)
matched_before_invalid(names, exp, rows, tol) ==
    IF rows = <<>> THEN <<>>
    ELSE IF first_invalid(names, Head(rows), tol) # "" THEN <<>>
    ELSE row_matches(names, exp, Head(rows))
            \o matched_before_invalid(names, exp, Tail(rows), tol)

\* mark_as_measured with the bug of setting the flag inside the loop over the
\* measurement rows: the rows matched before an invalid row stay marked.
mark_as_measured_marks_before_raising(names, exp, md, measurements, tol) ==
    LET m == match_measurement_with_searchspace_indices(names, exp, measurements, tol) IN
    IF ~m.ok
    THEN [ok |-> FALSE, err |-> m.err,
          metadata |-> IF SeqRange(exp.cols) \subseteq SeqRange(measurements.cols)
                       THEN loc_set(md, matched_before_invalid(names, exp,
                                                               measurements.rows, tol),
                                    "was_measured", TRUE)
                       ELSE md]
    ELSE [ok |-> TRUE, inds |-> m.inds,
          metadata |-> loc_set(md, m.inds, "was_measured", TRUE)]

\* SubspaceDiscrete.mark_as_measured: the metadata after the call, and the
\* matched index or the error; the match raises before line 155 writes.
mark_as_measured(names, exp, md, measurements, tol) ==
    LET m == match_measurement_with_searchspace_indices(names, exp, measurements, tol) IN
    IF ~m.ok THEN [ok |-> FALSE, err |-> m.err, metadata |-> md]
    ELSE [ok |-> TRUE, inds |-> m.inds,
          metadata |-> loc_set(md, m.inds, "was_measured", TRUE)]

\* mask_todrop with the bug of testing each flag against the other column.
mask_todrop_flags_swapped(md, allow_repeated_recommendations, allow_recommending_already_measured) ==
    [i \in DOMAIN md.rows |->
       [idx |-> md.rows[i].idx,
        val |-> \/ md.rows[i].vals["dont_recommend"]
                \/ (~allow_repeated_recommendations /\ md.rows[i].vals["was_measured"])
                \/ (~allow_recommending_already_measured
                    /\ md.rows[i].vals["was_recommended"])]]

\* mask_todrop of get_candidates: a boolean series on the index of metadata.
mask_todrop(md, allow_repeated_recommendations, allow_recommending_already_measured) ==
    [i \in DOMAIN md.rows |->
       [idx |-> md.rows[i].idx,
        val |-> \/ md.rows[i].vals["dont_recommend"]
                \/ (~allow_repeated_recommendations /\ md.rows[i].vals["was_recommended"])
                \/ (~allow_recommending_already_measured /\ md.rows[i].vals["was_measured"])]]

\* df.loc[~mask]: the rows of df whose label the mask maps to False.
loc_not(df, mask) ==
    LET Keep(r) == \E i \in DOMAIN mask : mask[i].idx = r.idx /\ ~mask[i].val
    IN [cols |-> df.cols, rows |-> SelectSeq(df.rows, Keep)]

\* get_candidates with the bug of filtering comp_rep by dont_recommend alone.
get_candidates_comp_by_dont_recommend(exp, comp, md, allow_repeated_recommendations, allow_recommending_already_measured) ==
    LET mask == mask_todrop(md, allow_repeated_recommendations,
                            allow_recommending_already_measured)
    IN [exp |-> loc_not(exp, mask), comp |-> loc_not(comp, mask_todrop(md, TRUE, TRUE)),
        metadata |-> md]

\* get_candidates with the bug of building the mask on the dont_recommend
\* column itself instead of a copy (line 282 without .copy()): the in-place
\* |= of lines 284 and 286 then writes the mask into metadata.
get_candidates_mask_without_copy(exp, comp, md, allow_repeated_recommendations, allow_recommending_already_measured) ==
    LET mask == mask_todrop(md, allow_repeated_recommendations,
                            allow_recommending_already_measured)
    IN [exp |-> loc_not(exp, mask), comp |-> loc_not(comp, mask),
        metadata |-> [cols |-> md.cols,
                      rows |-> [i \in DOMAIN md.rows |->
                                  [idx |-> md.rows[i].idx,
                                   vals |-> [md.rows[i].vals EXCEPT
                                               !["dont_recommend"] = mask[i].val]]]]]

\* SubspaceDiscrete.get_candidates
get_candidates(exp, comp, md, allow_repeated_recommendations, allow_recommending_already_measured) ==
    LET mask == mask_todrop(md, allow_repeated_recommendations,
                            allow_recommending_already_measured)
    IN [exp |-> loc_not(exp, mask), comp |-> loc_not(comp, mask), metadata |-> md]

-----------------------------------------------------------------------------
(* SubspaceContinuous and SearchSpace *)

\* SubspaceContinuous.param_bounds_comp: torch.tensor([p.bounds ...]).T
continuous_param_bounds_comp(names) ==
    <<[k \in DOMAIN names |-> Param(names[k]).bounds[1]],
      [k \in DOMAIN names |-> Param(names[k]).bounds[2]]>>

INF_BOUNDS_REPLACEMENT == 1000

\* torch.clip(x, -INF_BOUNDS_REPLACEMENT, INF_BOUNDS_REPLACEMENT) of one entry
clip(x) ==
    IF x < -INF_BOUNDS_REPLACEMENT THEN -INF_BOUNDS_REPLACEMENT
    ELSE IF x > INF_BOUNDS_REPLACEMENT THEN INF_BOUNDS_REPLACEMENT
    ELSE x

\* SubspaceContinuous.bounds_forced_finite
bounds_forced_finite(names) ==
    LET b == continuous_param_bounds_comp(names)
    IN <<[k \in DOMAIN b[1] |-> clip(b[1][k])], [k \in DOMAIN b[2] |-> clip(b[2][k])]>>

\* SubspaceContinuous.is_fully_bounded: torch.isfinite of the bounds, a tensor
\* of 2 x k booleans.
is_fully_bounded(names) ==
    LET b == continuous_param_bounds_comp(names)
    IN <<[k \in DOMAIN b[1] |-> Abs(b[1][k]) < Inf], [k \in DOMAIN b[2] |-> Abs(b[2][k]) < Inf]>>

\* The truth value Python takes of a tensor of two rows (in "not t"): only a
\* tensor of exactly one element has one, any other raises RuntimeError.
tensor_bool(t) ==
    IF Len(t[1]) + Len(t[2]) = 1
    THEN [ok |-> TRUE, val |-> (t[1] \o t[2])[1]]
    ELSE [ok |-> FALSE, err |-> "RuntimeError"]

\* The corners of the box of the clipped bounds, first parameter slowest.
RECURSIVE corner_tuples(_)
corner_tuples(pairs) ==
    IF pairs = <<>> THEN << <<>> >>
    ELSE LET rest == corner_tuples(Tail(pairs))
             n    == Len(rest)
         IN [k \in 1..(2 * n) |-> <<Head(pairs)[((k - 1) \div n) + 1]>> \o rest[((k - 1) % n) + 1]]

\* SubspaceContinuous.full_factorial: the frame of the corners, or the error
\* of "not self.is_fully_bounded" or of MultiIndex.from_product on no levels.
full_factorial(names) ==
    LET finite == tensor_bool(is_fully_bounded(names)) IN
    IF ~finite.ok THEN [ok |-> FALSE, err |-> finite.err]
    ELSE IF names = <<>> THEN [ok |-> FALSE, err |-> "ValueError"]
    ELSE LET b == bounds_forced_finite(names)
             tuples == corner_tuples([k \in DOMAIN names |-> <<b[1][k], b[2][k]>>])
         IN [ok |-> TRUE,
             df |-> [cols |-> names,
                     rows |-> [i \in DOMAIN tuples |->
                                 [idx |-> i - 1,
                                  vals |-> [c \in SeqRange(names) |->
                                              tuples[i][IndexOf(names, c)]]]]]]

\* SubspaceContinuous.samples_full_factorial; chosen is the draw of
\* DataFrame.sample: n_points distinct row positions.
samples_full_factorial(names, n_points, chosen) ==
    LET ff == full_factorial(names) IN
    IF ~ff.ok THEN [ok |-> FALSE, err |-> ff.err]
    ELSE IF Len(ff.df.rows) < n_points THEN [ok |-> FALSE, err |-> "ValueError"]
    ELSE [ok |-> TRUE,
          df |-> reset_index([cols |-> ff.df.cols,
                              rows |-> [i \in DOMAIN chosen |-> ff.df.rows[chosen[i]]]])]

\* param_bounds_comp with the bug of stacking the continuous bounds first.
param_bounds_comp_continuous_first(d_names, comp, c_names) ==
    LET d == discrete_param_bounds_comp(d_names, comp)
        c == continuous_param_bounds_comp(c_names)
    IN IF ~d.ok THEN d
       ELSE [ok |-> TRUE, bounds |-> <<c[1] \o d.bounds[1], c[2] \o d.bounds[2]>>]

\* SearchSpace.param_bounds_comp: torch.hstack of the two tensors.
param_bounds_comp(d_names, comp, c_names) ==
    LET d == discrete_param_bounds_comp(d_names, comp)
        c == continuous_param_bounds_comp(c_names)
    IN IF ~d.ok THEN d
       ELSE [ok |-> TRUE, bounds |-> <<d.bounds[1] \o c[1], d.bounds[2] \o c[2]>>]

\* validator min_len(1) of SearchSpace.parameters
MinLen == 1

\* SearchSpace(...) with the bug of a missing min_len validator.
SearchSpaceInit_unvalidated(discrete, c_names, names, ee) ==
    [ok |-> TRUE, discrete |-> discrete, continuous |-> c_names,
     parameters |-> names, empty_encoding |-> ee]

\* SearchSpace(discrete, continuous, parameters, empty_encoding)
SearchSpaceInit(discrete, c_names, names, ee) ==
    IF Len(names) < MinLen THEN [ok |-> FALSE, err |-> "ValueError"]
    ELSE [ok |-> TRUE, discrete |-> discrete, continuous |-> c_names,
          parameters |-> names, empty_encoding |-> ee]

\* SearchSpace.create
SearchSpaceCreate(names, cons, ee) ==
    LET IsDisc(n) == Param(n).is_discrete
        IsCont(n) == ~Param(n).is_discrete
        discrete == SubspaceDiscreteCreate(SelectSeq(names, IsDisc), cons, ee)
    IN IF ~discrete.ok THEN [ok |-> FALSE, err |-> discrete.err]
       ELSE SearchSpaceInit(discrete, SelectSeq(names, IsCont), names, ee)

\* type with the bug of testing the wrong subspace in the first two branches.
SearchSpaceType_swapped(d_names, c_names) ==
    IF ~empty(d_names) /\ empty(c_names) THEN "CONTINUOUS"
    ELSE IF empty(d_names) /\ ~empty(c_names) THEN "DISCRETE"
    ELSE IF ~empty(d_names) /\ ~empty(c_names) THEN "HYBRID"
    ELSE "RuntimeError"

\* SearchSpace.type
SearchSpaceType(d_names, c_names) ==
    IF empty(d_names) /\ ~empty(c_names) THEN "CONTINUOUS"
    ELSE IF ~empty(d_names) /\ empty(c_names) THEN "DISCRETE"
    ELSE IF ~empty(d_names) /\ ~empty(c_names) THEN "HYBRID"
    ELSE "RuntimeError"

\* The unstructure hook of a data frame: columns, index and rows of values.
unstructure_frame(df) ==
    [columns |-> df.cols,
     index   |-> Index(df),
     data    |-> [i \in DOMAIN df.rows |-> [k \in DOMAIN df.cols |-> df.rows[i].vals[df.cols[k]]]]]

\* The structure hook of a data frame.
structure_frame(d) ==
    [cols |-> d.columns,
     rows |-> [i \in DOMAIN d.index |->
                 [idx |-> d.index[i],
                  vals |-> [c \in SeqRange(d.columns) |-> d.data[i][IndexOf(d.columns, c)]]]]]

\* cattrs.unstructure of a parameter list: the dictionaries of the fields.
unstructure_parameters(names) == [k \in DOMAIN names |-> Param(names[k])]

\* cattrs.structure of a parameter list.
structure_parameters(ds) == [k \in DOMAIN ds |-> ds[k].name]

\* SearchSpace.to_dict: cattrs.unstructure(self), every attrs field included.
to_dict(names, d_names, c_names, exp, comp, md, ee) ==
    [discrete |-> [parameters |-> unstructure_parameters(d_names),
                   exp_rep |-> unstructure_frame(exp),
                   comp_rep |-> unstructure_frame(comp),
                   metadata |-> unstructure_frame(md),
                   empty_encoding |-> ee],
     continuous |-> [parameters |-> unstructure_parameters(c_names)],
     parameters |-> unstructure_parameters(names),
     empty_encoding |-> ee]

\* structure_hook with the bug of not popping comp_rep and metadata: the
\* stored frames are put on the new object.
structure_hook_keeps_derived(dict_) ==
    LET d == SubspaceDiscreteInit(structure_parameters(dict_.parameters),
                                  structure_frame(dict_.exp_rep), dict_.empty_encoding)
    IN IF ~d.ok THEN d
       ELSE [d EXCEPT !.comp_rep = structure_frame(dict_.comp_rep),
                      !.metadata = structure_frame(dict_.metadata)]

\* structure_hook of SubspaceDiscrete: comp_rep and metadata are popped, the
\* object is built from the remaining fields.
structure_hook(dict_) ==
    SubspaceDiscreteInit(structure_parameters(dict_.parameters),
                         structure_frame(dict_.exp_rep), dict_.empty_encoding)

\* SearchSpace.from_dict: cattrs.structure(dictionary, cls)
from_dict(dictionary) ==
    LET discrete == structure_hook(dictionary.discrete) IN
    IF ~discrete.ok THEN [ok |-> FALSE, err |-> discrete.err]
    ELSE SearchSpaceInit(discrete, structure_parameters(dictionary.continuous.parameters),
                         structure_parameters(dictionary.parameters),
                         dictionary.empty_encoding)

-----------------------------------------------------------------------------
(* Bounds and inputs *)

\* Longest parameter list passed to SearchSpace.create.
MaxParams == 4

\* Most rows in one measurements frame.
MaxMeasurements == 1

\* Most rows in a frame passed to transform.
MaxData == 2

\* Largest n_points passed to samples_full_factorial.
MaxPoints == 5

CreatePool == {"A_disc", "A_cont", "B_disc", "B_cont", "Categorical_1", "Num_disc_1"}

CreateParamLists == DistinctSeqs(CreatePool, MaxParams)

CreateConstraintLists ==
    {<<>>, <<"Sum">>, <<"Excl">>, <<"Dep", "Excl">>, <<"Excl", "Dep">>,
     <<"Sum_e7">>, <<"Perm_e7">>, <<"ContLin_e7">>}

\* The arguments of SubspaceDiscrete.create: <<parameters, constraints>>.
LifeInputs ==
    {<< <<>>, <<>> >>,
     << <<"Categorical_1">>, <<>> >>,
     << <<"Num_disc_1">>, <<>> >>,
     << <<"Num_disc_1">>, <<"Excl">> >>,
     << <<"Categorical_1", "Num_disc_1">>, <<"Excl">> >>}

\* One row of an input frame: a value for every parameter of the pool.
InputRow(label, cat, num) ==
    [idx |-> label, vals |-> [Categorical_1 |-> cat, Num_disc_1 |-> num, Target |-> 0]]

InputColumns == <<"Categorical_1", "Num_disc_1", "Target">>

\* Measured settings: one on the grid, one within tolerance of a grid value, one
\* outside the range of Num_disc_1.
MeasurementRows == {InputRow(0, "A", 10), InputRow(0, "B", 19), InputRow(0, "A", 50)}

\* All sequences over S of length at most n.
RECURSIVE SeqsUpTo(_, _)
SeqsUpTo(S, n) ==
    IF n = 0 THEN {<<>>}
    ELSE LET shorter == SeqsUpTo(S, n - 1)
         IN shorter \cup {Append(t, x) : t \in {u \in shorter : Len(u) = n - 1}, x \in S}

\* The measurement frames: up to MaxMeasurements rows labelled 0, 1, ...; and
\* one frame that lacks the column of Categorical_1.
MeasurementFrames ==
    {reset_index([cols |-> InputColumns, rows |-> rs]) :
        rs \in SeqsUpTo(MeasurementRows, MaxMeasurements)}
    \cup {[cols |-> <<"Num_disc_1">>,
           rows |-> <<[idx |-> 0, vals |-> [Num_disc_1 |-> 10]]>>]}

DataTable ==
    <<InputRow(7, "B", 20), InputRow(3, "A", 12), InputRow(5, "A", 10),
      InputRow(4, "B", 12)>>

\* The frames passed to transform: a prefix of DataTable.
DataFrames == {[cols |-> InputColumns, rows |-> SubSeq(DataTable, 1, k)] : k \in 0..MaxData}

-----------------------------------------------------------------------------
(* The state machine *)

NoObject ==
    /\ phase = "new"
    /\ parameters = <<>>
    /\ d_parameters = <<>>
    /\ c_parameters = <<>>
    /\ exp_rep = EmptyFrame
    /\ comp_rep = EmptyFrame
    /\ metadata = EmptyFrame
    /\ ret = [op |-> "none"]
    /\ marked = {}

\* A discrete subspace is about to be created from arguments of the caller.
Init ==
    /\ \E inp \in LifeInputs : in_parameters = inp[1] /\ in_constraints = inp[2]
    /\ empty_encoding \in BOOLEAN
    /\ NoObject

\* A search space is about to be created from arguments of the caller.
InitCreate ==
    /\ in_parameters \in CreateParamLists
    /\ in_constraints \in CreateConstraintLists
    /\ empty_encoding \in BOOLEAN
    /\ NoObject

Raised(op, err) == [op |-> op, ok |-> FALSE, err |-> err]

\* SubspaceDiscrete.create(in_parameters, in_constraints, empty_encoding)
CreateDiscrete ==
    /\ phase = "new"
    /\ LET d == SubspaceDiscreteCreate(in_parameters, in_constraints, empty_encoding) IN
       IF d.ok
       THEN /\ phase' = "discrete"
            /\ d_parameters' = d.parameters
            /\ exp_rep' = d.exp_rep
            /\ comp_rep' = d.comp_rep
            /\ metadata' = d.metadata
            /\ ret' = [op |-> "create", ok |-> TRUE]
       ELSE /\ phase' = "error"
            /\ ret' = Raised("create", d.err)
            /\ UNCHANGED <<d_parameters, exp_rep, comp_rep, metadata>>
    /\ UNCHANGED <<in_parameters, in_constraints, empty_encoding, parameters,
                   c_parameters, marked>>

\* SearchSpace.create(in_parameters, in_constraints, empty_encoding)
CreateSearchSpace ==
    /\ phase = "new"
    /\ LET s == SearchSpaceCreate(in_parameters, in_constraints, empty_encoding) IN
       IF s.ok
       THEN /\ phase' = "searchspace"
            /\ parameters' = s.parameters
            /\ c_parameters' = s.continuous
            /\ d_parameters' = s.discrete.parameters
            /\ exp_rep' = s.discrete.exp_rep
            /\ comp_rep' = s.discrete.comp_rep
            /\ metadata' = s.discrete.metadata
            /\ ret' = [op |-> "create", ok |-> TRUE]
       ELSE /\ phase' = "error"
            /\ ret' = Raised("create", s.err)
            /\ UNCHANGED <<parameters, c_parameters, d_parameters, exp_rep, comp_rep,
                           metadata>>
    /\ UNCHANGED <<in_parameters, in_constraints, empty_encoding, marked>>

\* searchspace.type
CallType ==
    /\ phase = "searchspace"
    /\ ret' = [op |-> "type", val |-> SearchSpaceType(d_parameters, c_parameters)]
    /\ UNCHANGED <<phase, in_parameters, in_constraints, empty_encoding, parameters,
                   d_parameters, c_parameters, exp_rep, comp_rep, metadata, marked>>

\* searchspace.param_bounds_comp
CallParamBoundsComp ==
    /\ phase = "searchspace"
    /\ LET b == param_bounds_comp(d_parameters, comp_rep, c_parameters) IN
       ret' = IF b.ok THEN [op |-> "param_bounds_comp", ok |-> TRUE, val |-> b.bounds]
              ELSE Raised("param_bounds_comp", b.err)
    /\ UNCHANGED <<phase, in_parameters, in_constraints, empty_encoding, parameters,
                   d_parameters, c_parameters, exp_rep, comp_rep, metadata, marked>>

\* discrete.mark_as_measured(measurements, tol)
MarkAsMeasured ==
    /\ phase = "discrete"
    /\ \E measurements \in MeasurementFrames, tol \in BOOLEAN :
         LET m == mark_as_measured(d_parameters, exp_rep, metadata, measurements, tol) IN
         IF m.ok
         THEN /\ metadata' = m.metadata
              /\ marked' = marked \cup SeqRange(m.inds)
              /\ ret' = [op |-> "mark_as_measured", ok |-> TRUE]
         ELSE /\ metadata' = m.metadata
              /\ ret' = Raised("mark_as_measured", m.err)
              /\ UNCHANGED marked
    /\ UNCHANGED <<phase, in_parameters, in_constraints, empty_encoding, parameters,
                   d_parameters, c_parameters, exp_rep, comp_rep>>

\* discrete.get_candidates(allow_repeated_recommendations,
\*                         allow_recommending_already_measured)
GetCandidates ==
    /\ phase = "discrete"
    /\ \E rep \in BOOLEAN, meas \in BOOLEAN :
         LET c == get_candidates(exp_rep, comp_rep, metadata, rep, meas) IN
         /\ ret' = [op |-> "get_candidates", allow_repeated_recommendations |-> rep,
                    allow_recommending_already_measured |-> meas,
                    exp |-> c.exp, comp |-> c.comp]
         /\ metadata' = c.metadata
    /\ UNCHANGED <<phase, in_parameters, in_constraints, empty_encoding, parameters,
                   d_parameters, c_parameters, exp_rep, comp_rep, marked>>

\* discrete.transform(data)
Transform ==
    /\ phase = "discrete"
    /\ \E data \in DataFrames :
         LET t == transform(d_parameters, empty_encoding, comp_rep, data) IN
         ret' = IF t.ok THEN [op |-> "transform", ok |-> TRUE, data |-> data, df |-> t.df]
                ELSE Raised("transform", t.err)
    /\ UNCHANGED <<phase, in_parameters, in_constraints, empty_encoding, parameters,
                   d_parameters, c_parameters, exp_rep, comp_rep, metadata, marked>>

\* The caller's bookkeeping after a recommendation: the recommended row is
\* flagged in metadata.
RecordRecommendation ==
    /\ phase = "discrete"
    /\ \E i \in DOMAIN metadata.rows :
         metadata' = loc_set(metadata, <<metadata.rows[i].idx>>, "was_recommended", TRUE)
    /\ ret' = [op |-> "none"]
    /\ UNCHANGED <<phase, in_parameters, in_constraints, empty_encoding, parameters,
                   d_parameters, c_parameters, exp_rep, comp_rep, marked>>

\* The caller excludes a row from all further recommendations.
FlagDontRecommend ==
    /\ phase = "discrete"
    /\ \E i \in DOMAIN metadata.rows :
         metadata' = loc_set(metadata, <<metadata.rows[i].idx>>, "dont_recommend", TRUE)
    /\ ret' = [op |-> "none"]
    /\ UNCHANGED <<phase, in_parameters, in_constraints, empty_encoding, parameters,
                   d_parameters, c_parameters, exp_rep, comp_rep, marked>>

Next ==
    \/ CreateDiscrete
    \/ MarkAsMeasured
    \/ GetCandidates
    \/ Transform
    \/ RecordRecommendation
    \/ FlagDontRecommend

Spec == Init /\ [][Next]_vars

NextCreate ==
    \/ CreateSearchSpace
    \/ CallType
    \/ CallParamBoundsComp

SpecCreate == InitCreate /\ [][NextCreate]_vars

-----------------------------------------------------------------------------
(* Transformation of external data by a discrete subspace *)

TransformPool == {"Categorical_1", "Num_disc_1", "A_disc"}

\* The arguments of SubspaceDiscrete.create whose subspaces transform data:
\* Excl10 leaves Num_disc_1 with a single value.
TransformParamLists == DistinctSeqs(TransformPool, MaxParams)

TransformConstraintLists == {<<>>, <<"Excl">>, <<"Excl10">>}

InitTransform ==
    /\ in_parameters \in TransformParamLists
    /\ in_constraints \in TransformConstraintLists
    /\ empty_encoding \in BOOLEAN
    /\ NoObject

NextTransform ==
    \/ CreateDiscrete
    \/ Transform

SpecTransform == InitTransform /\ [][NextTransform]_vars

-----------------------------------------------------------------------------
(* Matching of measurements against a discrete subspace *)

\* The arguments of SubspaceDiscrete.create whose subspaces are matched.
MatchInputs ==
    {<< <<>>, <<>> >>,
     << <<"Categorical_1">>, <<>> >>,
     << <<"Categorical_1">>, <<"ExclB">> >>,
     << <<"Num_disc_1">>, <<>> >>,
     << <<"Categorical_1", "Num_disc_1">>, <<"Excl">> >>,
     << <<"A_disc", "B_disc">>, <<"Sum">> >>}

MatchColumns == <<"Categorical_1", "Num_disc_1", "A_disc", "B_disc", "Target">>

\* One row of a measurements frame.
MatchRow(cat, num, a, b) ==
    [idx |-> 0,
     vals |-> [Categorical_1 |-> cat, Num_disc_1 |-> num, A_disc |-> a, B_disc |-> b,
               Target |-> 0]]

\* Measured settings: within the tolerance of Num_disc_1; half-way between two
\* values of Num_disc_1; on the grid, a setting a constraint may have removed;
\* an unknown label; numbers outside every range.
MatchRows ==
    {MatchRow("B", 19, 2, 8), MatchRow("A", 15, 3, 9), MatchRow("B", 10, 3, 9),
     MatchRow("C", 10, 1, 7), MatchRow("A", 50, 5, 7)}

\* Batches of two rows: a setting that is matched, followed by an unknown
\* label or by a number outside the range.
MatchPairs ==
    {<<MatchRow("B", 19, 2, 8), MatchRow("C", 10, 1, 7)>>,
     <<MatchRow("B", 19, 2, 8), MatchRow("A", 50, 5, 7)>>}

\* The measurements frames: up to MaxMeasurements rows with every column, the
\* batches of two rows, and frames that lack the columns of some parameters.
MatchFrames ==
    {reset_index([cols |-> MatchColumns, rows |-> rs]) :
        rs \in SeqsUpTo(MatchRows, MaxMeasurements) \cup MatchPairs}
    \cup {select_columns(reset_index([cols |-> MatchColumns, rows |-> rs]), cols) :
            rs \in SeqsUpTo({MatchRow("A", 10, 1, 7), MatchRow("C", 10, 1, 7)},
                            MaxMeasurements),
            cols \in {<<"Categorical_1", "B_disc">>}}

\* The batches of one row a call is compared with in either order.
OrderFrames ==
    {reset_index([cols |-> MatchColumns, rows |-> <<r>>]) :
        r \in {MatchRow("B", 19, 2, 8), MatchRow("A", 15, 3, 9), MatchRow("B", 10, 3, 9)}}

InitMatch ==
    /\ \E inp \in MatchInputs : in_parameters = inp[1] /\ in_constraints = inp[2]
    /\ empty_encoding = FALSE
    /\ NoObject

\* discrete.mark_as_measured(measurements, tol); ret keeps the arguments and
\* the matched index.
MarkMeasurements ==
    /\ phase = "discrete"
    /\ \E measurements \in MatchFrames, tol \in BOOLEAN :
         LET m == mark_as_measured(d_parameters, exp_rep, metadata, measurements, tol) IN
         IF m.ok
         THEN /\ metadata' = m.metadata
              /\ marked' = marked \cup SeqRange(m.inds)
              /\ ret' = [op |-> "mark_as_measured", ok |-> TRUE, inds |-> m.inds,
                         measurements |-> measurements, tol |-> tol]
         ELSE /\ metadata' = m.metadata
              /\ ret' = [op |-> "mark_as_measured", ok |-> FALSE, err |-> m.err,
                         measurements |-> measurements, tol |-> tol]
              /\ UNCHANGED marked
    /\ UNCHANGED <<phase, in_parameters, in_constraints, empty_encoding, parameters,
                   d_parameters, c_parameters, exp_rep, comp_rep>>

NextMatch ==
    \/ CreateDiscrete
    \/ MarkMeasurements

SpecMatch == InitMatch /\ [][NextMatch]_vars

-----------------------------------------------------------------------------
(* Serialisation of a search space and sampling of its continuous part *)

\* The arguments of SearchSpace.create whose spaces are stored and reloaded.
SerialInputs ==
    {<< <<"A_cont">>, <<>> >>,
     << <<"A_cont", "C_cont">>, <<>> >>,
     << <<"Categorical_1">>, <<>> >>,
     << <<"Categorical_1", "A_cont">>, <<>> >>,
     << <<"Num_disc_1", "B_cont">>, <<"Excl10">> >>,
     << <<"B_cont", "Num_disc_1", "A_cont", "Categorical_1">>, <<"Excl">> >>}

InitSerial ==
    /\ \E inp \in SerialInputs : in_parameters = inp[1] /\ in_constraints = inp[2]
    /\ empty_encoding \in BOOLEAN
    /\ NoObject

\* searchspace.discrete.mark_as_measured(measurements, tol)
MarkAsMeasuredInSpace ==
    /\ phase = "searchspace"
    /\ \E measurements \in MeasurementFrames, tol \in BOOLEAN :
         LET m == mark_as_measured(d_parameters, exp_rep, metadata, measurements, tol) IN
         IF m.ok
         THEN /\ metadata' = m.metadata
              /\ marked' = marked \cup SeqRange(m.inds)
              /\ ret' = [op |-> "mark_as_measured", ok |-> TRUE]
         ELSE /\ ret' = Raised("mark_as_measured", m.err)
              /\ UNCHANGED <<metadata, marked>>
    /\ UNCHANGED <<phase, in_parameters, in_constraints, empty_encoding, parameters,
                   d_parameters, c_parameters, exp_rep, comp_rep>>

\* searchspace.to_dict()
ToDict ==
    /\ phase = "searchspace"
    /\ ret' = [op |-> "to_dict",
               val |-> to_dict(parameters, d_parameters, c_parameters, exp_rep, comp_rep,
                               metadata, empty_encoding)]
    /\ UNCHANGED <<phase, in_parameters, in_constraints, empty_encoding, parameters,
                   d_parameters, c_parameters, exp_rep, comp_rep, metadata, marked>>

\* SearchSpace.from_dict(dictionary) of the dictionary to_dict has just
\* returned; the state becomes that of the reloaded object.
FromDict ==
    /\ phase = "searchspace"
    /\ ret.op = "to_dict"
    /\ LET s == from_dict(ret.val) IN
       IF s.ok
       THEN /\ parameters' = s.parameters
            /\ c_parameters' = s.continuous
            /\ d_parameters' = s.discrete.parameters
            /\ exp_rep' = s.discrete.exp_rep
            /\ comp_rep' = s.discrete.comp_rep
            /\ metadata' = s.discrete.metadata
            /\ empty_encoding' = s.empty_encoding
            /\ marked' = {}
            /\ ret' = [op |-> "from_dict", ok |-> TRUE, dictionary |-> ret.val]
            /\ UNCHANGED phase
       ELSE /\ phase' = "error"
            /\ ret' = Raised("from_dict", s.err)
            /\ UNCHANGED <<parameters, c_parameters, d_parameters, exp_rep, comp_rep,
                           metadata, empty_encoding, marked>>
    /\ UNCHANGED <<in_parameters, in_constraints>>

\* searchspace.continuous.samples_full_factorial(n_points)
SamplesFullFactorial ==
    /\ phase = "searchspace"
    /\ \E n_points \in 0..MaxPoints :
         LET ff == full_factorial(c_parameters)
             positions == IF ff.ok THEN DOMAIN ff.df.rows ELSE {}
             draws == IF Cardinality(positions) < n_points THEN {<<>>}
                      ELSE {c \in DistinctSeqs(positions, n_points) : Len(c) = n_points}
         IN \E chosen \in draws :
              LET r == samples_full_factorial(c_parameters, n_points, chosen) IN
              ret' = IF r.ok
                     THEN [op |-> "samples_full_factorial", ok |-> TRUE,
                           n_points |-> n_points, df |-> r.df]
                     ELSE [op |-> "samples_full_factorial", ok |-> FALSE,
                           n_points |-> n_points, err |-> r.err]
    /\ UNCHANGED <<phase, in_parameters, in_constraints, empty_encoding, parameters,
                   d_parameters, c_parameters, exp_rep, comp_rep, metadata, marked>>

NextSerial ==
    \/ CreateSearchSpace
    \/ MarkAsMeasuredInSpace
    \/ ToDict
    \/ FromDict
    \/ SamplesFullFactorial

SpecSerial == InitSerial /\ [][NextSerial]_vars

-----------------------------------------------------------------------------
(* Properties *)

Labels(df) == SeqRange(Index(df))

\* The row of df labelled l.
RowAt(df, l) == df.rows[CHOOSE i \in DOMAIN df.rows : df.rows[i].idx = l]

\* C1: in every state of a created discrete subspace, right after create and
\* after any calls of mark_as_measured, get_candidates and transform, exp_rep,
\* comp_rep and metadata carry the same index labels in the same order.
C1_RepresentationsAligned ==
    phase = "discrete" =>
        /\ Index(comp_rep) = Index(exp_rep)
        /\ Index(metadata) = Index(exp_rep)

\* C1 witness: a subspace built with empty encoding whose constraint removed a
\* row of the product, after a mark_as_measured call that flagged a row.
C1_Witness ==
    /\ phase = "discrete"
    /\ empty_encoding
    /\ in_constraints = <<"Excl">>
    /\ Len(exp_rep.rows) = 3
    /\ ret.op = "mark_as_measured"
    /\ marked # {}

\* C2: get_candidates returns row r exactly when dont_recommend[r] is False,
\* and the first flag is set or was_recommended[r] is False, and the second
\* flag is set or was_measured[r] is False; a returned row is the row of
\* exp_rep with that label.
C2_CandidatesExactlyTheEligibleRows ==
    ret.op = "get_candidates" =>
        /\ \A i \in DOMAIN metadata.rows :
             LET m == metadata.rows[i] IN
             (m.idx \in Labels(ret.exp)) <=>
                 /\ ~m.vals["dont_recommend"]
                 /\ ret.allow_repeated_recommendations \/ ~m.vals["was_recommended"]
                 /\ ret.allow_recommending_already_measured \/ ~m.vals["was_measured"]
        /\ \A j \in DOMAIN ret.exp.rows :
             /\ ret.exp.rows[j].idx \in Labels(exp_rep)
             /\ ret.exp.rows[j] = RowAt(exp_rep, ret.exp.rows[j].idx)

\* C2 witness: a call with allow_repeated_recommendations set and
\* allow_recommending_already_measured not set that returned a recommended row
\* and held back a measured row and a row flagged dont_recommend.
C2_Witness ==
    /\ ret.op = "get_candidates"
    /\ ret.allow_repeated_recommendations
    /\ ~ret.allow_recommending_already_measured
    /\ \E i \in DOMAIN metadata.rows :
          /\ metadata.rows[i].vals["was_recommended"]
          /\ metadata.rows[i].idx \in Labels(ret.exp)
    /\ \E i \in DOMAIN metadata.rows :
          /\ metadata.rows[i].vals["was_measured"]
          /\ ~metadata.rows[i].vals["dont_recommend"]
          /\ metadata.rows[i].idx \notin Labels(ret.exp)
    /\ \E i \in DOMAIN metadata.rows :
          /\ metadata.rows[i].vals["dont_recommend"]
          /\ ~metadata.rows[i].vals["was_measured"]
          /\ metadata.rows[i].idx \notin Labels(ret.exp)

\* C3: the experimental and the computational frame returned by
\* get_candidates hold the same index labels in the same order.
C3_CandidateFramesAligned ==
    ret.op = "get_candidates" => Index(ret.exp) = Index(ret.comp)

\* C3 witness: a call that returned some rows of the subspace, not all.
C3_Witness ==
    /\ ret.op = "get_candidates"
    /\ Len(ret.exp.rows) > 1
    /\ Len(ret.exp.rows) < Len(exp_rep.rows)
    /\ ret.comp.cols # <<>>

\* C4: a step that is a mark_as_measured, get_candidates or transform call
\* leaves every flag that is True at True, on the same row.
C4_FlagsMonotone ==
    [][(phase = "discrete"
        /\ ret'.op \in {"mark_as_measured", "get_candidates", "transform"}) =>
          /\ Index(metadata') = Index(metadata)
          /\ \A i \in DOMAIN metadata.rows : \A c \in SeqRange(MetadataColumns) :
                metadata.rows[i].vals[c] => metadata'.rows[i].vals[c]]_vars

\* C4 witness: a successful mark_as_measured call on a subspace in which a row
\* was measured before the call (the call flagged no further row or the same
\* one), another is recommended and another flagged dont_recommend.
C4_Witness ==
    /\ ret.op = "mark_as_measured"
    /\ ret.ok
    /\ Cardinality(marked) > 1
    /\ \E i \in DOMAIN metadata.rows : metadata.rows[i].vals["was_recommended"]
    /\ \E i \in DOMAIN metadata.rows : metadata.rows[i].vals["dont_recommend"]

\* C5: a get_candidates call without allow_recommending_already_measured
\* returns no row that mark_as_measured has ever flagged; with both flags
\* False every returned row has was_recommended and was_measured False.
C5_MeasuredRowsNeverCandidates ==
    ret.op = "get_candidates" =>
        /\ ~ret.allow_recommending_already_measured =>
              Labels(ret.exp) \cap marked = {} /\ Labels(ret.comp) \cap marked = {}
        /\ (~ret.allow_repeated_recommendations
            /\ ~ret.allow_recommending_already_measured) =>
              \A l \in Labels(ret.exp) :
                 /\ ~RowAt(metadata, l).vals["was_recommended"]
                 /\ ~RowAt(metadata, l).vals["was_measured"]

\* C5 witness: rows were marked as measured and a later get_candidates
\* call with both flags False still returned a row.
C5_Witness ==
    /\ ret.op = "get_candidates"
    /\ ~ret.allow_repeated_recommendations
    /\ ~ret.allow_recommending_already_measured
    /\ marked # {}
    /\ ret.exp.rows # <<>>

IsDiscreteName(n) == Param(n).is_discrete

IsContinuousName(n) == ~Param(n).is_discrete

\* C6: SearchSpace.create with an empty parameter list ends in an error, and
\* no search space ever holds an empty parameter list.
C6_EmptyParameterListFails ==
    /\ (in_parameters = <<>> /\ phase # "new") =>
          phase = "error" /\ ret.op = "create" /\ ~ret.ok
    /\ phase = "searchspace" => Len(parameters) >= 1

\* C6 witness: create was called with no parameters and no constraints and
\* raised the validation error of the parameters attribute.
C6_Witness ==
    /\ in_parameters = <<>>
    /\ in_constraints = <<>>
    /\ phase = "error"
    /\ ret = Raised("create", "ValueError")

\* C7: type of a created search space is DISCRETE exactly when only the
\* discrete subspace has parameters, CONTINUOUS exactly when only the
\* continuous one has, HYBRID exactly when both have, and never the
\* RuntimeError; the subspaces hold the discrete and continuous parameters
\* of the list given to create.
C7_TypeClassifiesSubspaces ==
    ret.op = "type" =>
        LET hasD == \E i \in DOMAIN parameters : IsDiscreteName(parameters[i])
            hasC == \E i \in DOMAIN parameters : IsContinuousName(parameters[i])
        IN /\ hasD <=> d_parameters # <<>>
           /\ hasC <=> c_parameters # <<>>
           /\ ret.val = "DISCRETE" <=> (hasD /\ ~hasC)
           /\ ret.val = "CONTINUOUS" <=> (~hasD /\ hasC)
           /\ ret.val = "HYBRID" <=> (hasD /\ hasC)
           /\ ret.val # "RuntimeError"

\* C7 witness: type was read on a space with a discrete parameter between two
\* continuous ones.
C7_Witness ==
    /\ ret.op = "type"
    /\ ret.val = "HYBRID"
    /\ parameters = <<"A_cont", "Num_disc_1", "B_cont">>

\* The <<min, max>> pairs a parameter contributes to the bounds: one pair per
\* computational column for a discrete parameter, the declared bounds for a
\* continuous one.
BoundPairs(n) ==
    LET p == Param(n) IN
    IF ~p.is_discrete THEN <<p.bounds>>
    ELSE IF p.is_numeric THEN << <<SetMin(SeqRange(p.values)), SetMax(SeqRange(p.values))>> >>
    ELSE IF p.encoding = "OHE" THEN [i \in DOMAIN p.values |-> <<0, 1>>]
    ELSE << <<0, Len(p.values) - 1>> >>

RECURSIVE BoundPairsOf(_)
BoundPairsOf(names) ==
    IF names = <<>> THEN <<>> ELSE BoundPairs(Head(names)) \o BoundPairsOf(Tail(names))

\* The bound pairs of the discrete parameters of names, in their relative
\* order, followed by those of the continuous ones, in their relative order.
DiscreteFirstBounds(names) ==
    BoundPairsOf(SelectSeq(names, IsDiscreteName))
        \o BoundPairsOf(SelectSeq(names, IsContinuousName))

\* C8: for a space created without constraints, whatever the order of the
\* parameter list, param_bounds_comp holds the bounds of the discrete
\* parameters' columns in the parameters' relative order and then the bounds of
\* the continuous parameters in their relative order; without empty encoding
\* the call returns; and the list A_disc, A_cont, B_disc, B_cont gives
\* [[1,7,4,10],[3,9,6,12]].
C8_BoundsDiscreteFirst ==
    (ret.op = "param_bounds_comp" /\ in_constraints = <<>>) =>
        LET want == DiscreteFirstBounds(in_parameters) IN
        /\ ~empty_encoding => ret.ok
        /\ ret.ok =>
              /\ ret.val = <<[k \in DOMAIN want |-> want[k][1]],
                             [k \in DOMAIN want |-> want[k][2]]>>
              /\ in_parameters = <<"A_disc", "A_cont", "B_disc", "B_cont">> =>
                    ret.val = << <<1, 7, 4, 10>>, <<3, 9, 6, 12>> >>

\* C8 witness: the bounds were read on the space created from the list
\* B_cont, B_disc, A_cont, A_disc, a permutation in which a continuous
\* parameter comes first.
C8_Witness ==
    /\ ret.op = "param_bounds_comp"
    /\ ret.ok
    /\ in_constraints = <<>>
    /\ in_parameters = <<"B_cont", "B_disc", "A_cont", "A_disc">>
    /\ ret.val = << <<7, 1, 10, 4>>, <<9, 3, 12, 6>> >>

\* Does a constraint of the list given to create name a parameter that is not
\* in the parameter list?
NamesUnknownParameter ==
    \E i \in DOMAIN in_constraints :
        ~(SeqRange(Constraint(in_constraints[i]).parameters) \subseteq SeqRange(in_parameters))

\* C9: SearchSpace.create with a constraint that names a parameter missing
\* from the parameter list ends in an error, whether or not the constraint is
\* evaluated during creation.
C9_UnknownConstraintParameterFails ==
    (phase # "new" /\ NamesUnknownParameter) => phase = "error"

\* All assignments of one domain value to every name.
RECURSIVE RefProduct(_)
RefProduct(names) ==
    IF names = <<>> THEN {NoVals}
    ELSE {(Head(names) :> v) @@ f :
             v \in SeqRange(Param(Head(names)).values), f \in RefProduct(Tail(names))}

\* The rows that survive the constraints ids applied one after the other, each
\* judged on the rows left by those before it (renumbered from 0).
RECURSIVE RefSurvivors(_, _, _)
RefSurvivors(ids, names, rows) ==
    IF ids = <<>> THEN rows
    ELSE IF ~Constraint(Head(ids)).eval_during_creation
    THEN RefSurvivors(Tail(ids), names, rows)
    ELSE LET df  == [cols |-> names,
                     rows |-> [i \in DOMAIN rows |-> [idx |-> i - 1, vals |-> rows[i]]]]
             bad == get_invalid(Constraint(Head(ids)), df).inds
             Keep(r) == r.idx \notin bad
             kept == SelectSeq(df.rows, Keep)
         IN RefSurvivors(Tail(ids), names, [i \in DOMAIN kept |-> kept[i].vals])

Vals(df) == [i \in DOMAIN df.rows |-> df.rows[i].vals]

\* C10: after create, for a non-empty discrete parameter list, exp_rep holds
\* the combinations of the product of the value domains, each at most once,
\* that survive the creation-time constraints applied one after the other (in
\* their canonical order, each judged on the survivors of the earlier ones),
\* all of the product when no constraint is evaluated; its index is 0..n-1.
C10_ExpRepIsFilteredProduct ==
    (phase = "searchspace" /\ d_parameters # <<>>) =>
        LET product == Vals(parameter_cartesian_prod_to_df(d_parameters))
            ids     == sorted_constraints(in_constraints)
            Eval(id) == Constraint(id).eval_during_creation
        IN /\ Vals(exp_rep) = RefSurvivors(ids, d_parameters, product)
           /\ Index(exp_rep) = [i \in DOMAIN exp_rep.rows |-> i - 1]
           /\ SeqRange(Vals(exp_rep)) \subseteq RefProduct(d_parameters)
           /\ \A i, j \in DOMAIN exp_rep.rows :
                 exp_rep.rows[i].vals = exp_rep.rows[j].vals => i = j
           /\ SelectSeq(ids, Eval) = <<>> =>
                 Len(exp_rep.rows) = Cardinality(RefProduct(d_parameters))

\* C10 witness: a space created with the exclusion and the dependency
\* constraint, given in the order opposite to their evaluation order; the
\* exclusion removed the row whose duplicate the dependency would have
\* removed, so three of the four combinations survive.
C10_Witness ==
    /\ phase = "searchspace"
    /\ in_constraints = <<"Dep", "Excl">>
    /\ d_parameters = <<"Categorical_1", "Num_disc_1">>
    /\ Len(exp_rep.rows) = 3

\* C11 as stated: without empty encoding, every transform call that returns,
\* on any input rows, returns exactly the columns of comp_rep, in their order.
C11_TransformAlwaysFrozenColumns ==
    (ret.op = "transform" /\ ret.ok /\ ~empty_encoding) => ret.df.cols = comp_rep.cols

\* C11 amended: without empty encoding, every transform call on an input with
\* at least one row returns exactly the columns of comp_rep, in their order;
\* on an input without rows it returns no column; the call raises only when
\* the input lacks the column of a parameter.
C11_TransformFrozenColumnsOfNonEmptyInput ==
    (ret.op = "transform" /\ ~empty_encoding) =>
        /\ ret.ok =>
              /\ Len(ret.data.rows) >= 1 => ret.df.cols = comp_rep.cols
              /\ Len(ret.data.rows) < 1 => ret.df.cols = <<>>
              /\ SeqRange(ret.df.cols) \subseteq SeqRange(all_comp_columns(d_parameters))
        /\ ~ret.ok => ~(SeqRange(d_parameters) \subseteq SeqRange(InputColumns))

\* C11 witness: the constraint left Num_disc_1 with one value, so its column
\* is not in comp_rep, and a transform of two rows returned the two columns of
\* Categorical_1 only.
C11_Witness ==
    /\ ret.op = "transform"
    /\ ret.ok
    /\ ~empty_encoding
    /\ in_constraints = <<"Excl10">>
    /\ d_parameters = <<"Categorical_1", "Num_disc_1">>
    /\ Len(ret.data.rows) = 2
    /\ comp_rep.cols = <<"Categorical_1_A", "Categorical_1_B">>
    /\ ret.df.cols = comp_rep.cols

\* C12: a discrete subspace built with empty_encoding has a comp_rep without
\* columns, and every transform call returns, whatever the input, a frame
\* without columns that has one row per input row, under the input's labels.
C12_EmptyEncodingTransformsToNoColumns ==
    (phase = "discrete" /\ empty_encoding) =>
        /\ comp_rep.cols = <<>>
        /\ ret.op = "transform" =>
              /\ ret.ok
              /\ ret.df.cols = <<>>
              /\ Len(ret.df.rows) = Len(ret.data.rows)
              /\ Index(ret.df) = Index(ret.data)

\* C12 witness: a subspace of two parameters built with empty_encoding
\* transformed an input of two rows.
C12_Witness ==
    /\ phase = "discrete"
    /\ empty_encoding
    /\ d_parameters = <<"Num_disc_1", "Categorical_1">>
    /\ Len(exp_rep.rows) = 4
    /\ ret.op = "transform"
    /\ Len(ret.data.rows) = 2
    /\ Len(ret.df.rows) = 2

\* Does the measurements frame df hold a column for every parameter of the
\* discrete subspace?
HasAllColumns(df) == SeqRange(d_parameters) \subseteq SeqRange(df.cols)

\* C15: mark_as_measured raises a ValueError whenever the measurements frame
\* lacks the column of a parameter of the subspace, whatever the flag and the
\* number of rows (none included); a frame that holds every parameter's column,
\* extra columns or not, and only domain values is accepted.
C15_MissingColumnFails ==
    ret.op = "mark_as_measured" =>
        /\ ~HasAllColumns(ret.measurements) => (~ret.ok /\ ret.err = "ValueError")
        /\ (/\ HasAllColumns(ret.measurements)
            /\ \A i \in DOMAIN ret.measurements.rows : \A n \in SeqRange(d_parameters) :
                  ret.measurements.rows[i].vals[n] \in SeqRange(Param(n).values))
           => ret.ok

\* C15 witness: a frame without rows that has the column of Categorical_1 and
\* an extra column, but no column of Num_disc_1, was rejected with the flag
\* False.
C15_Witness ==
    /\ ret.op = "mark_as_measured"
    /\ ~ret.ok
    /\ ~ret.tol
    /\ d_parameters = <<"Categorical_1", "Num_disc_1">>
    /\ ret.measurements.cols = <<"Categorical_1", "B_disc">>
    /\ ret.measurements.rows = <<>>

\* C16: on a frame with every parameter's column, mark_as_measured raises a
\* ValueError exactly when some row holds, for a non-numeric parameter, a value
\* that is no entry of its domain (whatever the flag) or, for a numeric
\* parameter, a value outside its range while the flag is True; with the flag
\* False no numeric value raises.
C16_ValidationByKindAndFlag ==
    (ret.op = "mark_as_measured" /\ HasAllColumns(ret.measurements)) =>
        LET Bad(m, n) == /\ ~is_in_range(Param(n), m.vals[n])
                         /\ Param(n).is_numeric => ret.tol
        IN /\ ~ret.ok <=> \E i \in DOMAIN ret.measurements.rows :
                             \E n \in SeqRange(d_parameters) : Bad(ret.measurements.rows[i], n)
           /\ ~ret.ok => ret.err = "ValueError"

\* C16 witness: with the flag False, a row whose Num_disc_1 value 50 is outside
\* the range was accepted and matched to the nearest value, 20.
C16_Witness ==
    /\ ret.op = "mark_as_measured"
    /\ ret.ok
    /\ ~ret.tol
    /\ d_parameters = <<"Categorical_1", "Num_disc_1">>
    /\ Len(ret.measurements.rows) = 1
    /\ ret.measurements.rows[1].vals["Num_disc_1"] = 50
    /\ Len(ret.inds) = 1
    /\ RowAt(exp_rep, ret.inds[1]).vals["Num_disc_1"] = 20

\* The positions of the rows of exp_rep that match measurement row m.
Matches(m) ==
    {i \in DOMAIN exp_rep.rows : is_match(d_parameters, exp_rep, exp_rep.rows[i], m)}

\* What one measurement row records: nothing without a match, else the label
\* of the positionally first match.
Recorded(m) ==
    IF Matches(m) = {} THEN <<>> ELSE <<exp_rep.rows[SetMin(Matches(m))].idx>>

RECURSIVE RecordedAll(_)
RecordedAll(rows) ==
    IF rows = <<>> THEN <<>> ELSE Recorded(Head(rows)) \o RecordedAll(Tail(rows))

\* C17: a mark_as_measured call that returns has recorded, for every
\* measurement row in turn, no row when none matches and else the positionally
\* first matching row only; it sets was_measured on exactly the recorded rows
\* and changes no other flag; a call that raises changes nothing.
C17_AtMostOneRowPerMeasurement ==
    [][(phase = "discrete" /\ ret'.op = "mark_as_measured") =>
          /\ ret'.ok =>
                /\ ret'.inds = RecordedAll(ret'.measurements.rows)
                /\ Len(ret'.inds) <= Len(ret'.measurements.rows)
                /\ Index(metadata') = Index(metadata)
                /\ \A i \in DOMAIN metadata.rows :
                      /\ metadata'.rows[i].vals["was_measured"] =
                            (\/ metadata.rows[i].vals["was_measured"]
                             \/ metadata.rows[i].idx \in SeqRange(ret'.inds))
                      /\ metadata'.rows[i].vals["was_recommended"] =
                            metadata.rows[i].vals["was_recommended"]
                      /\ metadata'.rows[i].vals["dont_recommend"] =
                            metadata.rows[i].vals["dont_recommend"]
          /\ ~ret'.ok => metadata' = metadata]_vars

\* C17 witness: the measured value 15 is as far from 10 as from 20, both rows
\* of category A match, and only the first of them was recorded.
C17_Witness ==
    /\ ret.op = "mark_as_measured"
    /\ ret.ok
    /\ d_parameters = <<"Categorical_1", "Num_disc_1">>
    /\ Len(ret.measurements.rows) = 1
    /\ ret.measurements.rows[1].vals["Num_disc_1"] = 15
    /\ Cardinality(Matches(ret.measurements.rows[1])) = 2
    /\ ret.inds = <<0>>
    /\ marked = {0}

\* The positions among cands that survive the numeric filter applied
\* parameter by parameter, each minimum taken over the positions still left.
RECURSIVE NumericFilter(_, _, _)
NumericFilter(nums, cands, m) ==
    IF nums = <<>> \/ cands = {} THEN cands
    ELSE LET dev(i) == Abs(exp_rep.rows[i].vals[Head(nums)] - m.vals[Head(nums)])
             best   == SetMin({dev(i) : i \in cands})
         IN NumericFilter(Tail(nums), {i \in cands : dev(i) = best}, m)

\* The positions of the rows that agree with m on every categorical parameter.
CategoricalMatches(m) ==
    {i \in DOMAIN exp_rep.rows :
        \A n \in SeqRange(d_parameters) :
            ~Param(n).is_numeric => exp_rep.rows[i].vals[n] = m.vals[n]}

IsNumericDiscreteName(n) == Param(n).is_numeric /\ Param(n).is_discrete

RECURSIVE RemainingRecordedAll(_)
RemainingRecordedAll(rows) ==
    IF rows = <<>> THEN <<>>
    ELSE LET left == NumericFilter(SelectSeq(d_parameters, IsNumericDiscreteName),
                                   CategoricalMatches(Head(rows)), Head(rows))
         IN (IF left = {} THEN <<>> ELSE <<exp_rep.rows[SetMin(left)].idx>>)
            \o RemainingRecordedAll(Tail(rows))

\* C18: the numeric filter keeps, parameter by parameter, the rows whose
\* deviation is the minimum over the rows still remaining, so a measurement
\* row that agrees with some row on the categorical values is matched to a row.
C18_MinimumOverRemainingCandidates ==
    (phase = "discrete" /\ ret.op = "mark_as_measured" /\ ret.ok) =>
        /\ ret.inds = RemainingRecordedAll(ret.measurements.rows)
        /\ (/\ Len(ret.measurements.rows) = 1
            /\ CategoricalMatches(ret.measurements.rows[1]) # {}) => ret.inds # <<>>

\* C19: every row recorded by a mark_as_measured call, and every row whose
\* was_measured flag the call turns on, agrees on every non-numeric parameter
\* with some row of the measurements of the call.
C19_MarkedRowsAgreeOnCategoricals ==
    [][(phase = "discrete" /\ ret'.op = "mark_as_measured" /\ ret'.ok) =>
          LET Agrees(r) ==
                \E j \in DOMAIN ret'.measurements.rows :
                    \A n \in SeqRange(d_parameters) :
                        ~Param(n).is_numeric =>
                            r.vals[n] = ret'.measurements.rows[j].vals[n]
          IN /\ \A l \in SeqRange(ret'.inds) : Agrees(RowAt(exp_rep, l))
             /\ \A i \in DOMAIN metadata.rows :
                   (/\ ~metadata.rows[i].vals["was_measured"]
                    /\ metadata'.rows[i].vals["was_measured"]) => Agrees(exp_rep.rows[i])]_vars

\* C19 witness: the measurement (B, 19) marked the row (B, 20): the number is
\* matched to the nearest value, the category exactly.
C19_Witness ==
    /\ ret.op = "mark_as_measured"
    /\ ret.ok
    /\ d_parameters = <<"Categorical_1", "Num_disc_1">>
    /\ Len(ret.measurements.rows) = 1
    /\ ret.measurements.rows[1].vals["Categorical_1"] = "B"
    /\ ret.measurements.rows[1].vals["Num_disc_1"] = 19
    /\ ret.inds = <<2>>
    /\ RowAt(exp_rep, 2).vals["Categorical_1"] = "B"
    /\ RowAt(exp_rep, 2).vals["Num_disc_1"] = 20
    /\ RowAt(metadata, 2).vals["was_measured"]

RECURSIVE Pow2(_)
Pow2(k) == IF k = 0 THEN 1 ELSE 2 * Pow2(k - 1)

\* C14: samples_full_factorial(n) on a continuous subspace of k >= 1
\* parameters raises a ValueError when n > 2^k, and for n <= 2^k returns n
\* pairwise distinct rows, each holding for every parameter one of its two
\* clipped bounds.
C14_FullFactorialSamples ==
    (ret.op = "samples_full_factorial" /\ c_parameters # <<>>) =>
        LET b == bounds_forced_finite(c_parameters) IN
        /\ ret.n_points > Pow2(Len(c_parameters)) => (~ret.ok /\ ret.err = "ValueError")
        /\ ret.n_points <= Pow2(Len(c_parameters)) =>
              /\ ret.ok
              /\ Len(ret.df.rows) = ret.n_points
              /\ \A i, j \in DOMAIN ret.df.rows :
                    ret.df.rows[i].vals = ret.df.rows[j].vals => i = j
              /\ \A i \in DOMAIN ret.df.rows : \A k \in DOMAIN c_parameters :
                    ret.df.rows[i].vals[c_parameters[k]] \in {b[1][k], b[2][k]}

\* C20: on a search space with a discrete parameter, param_bounds_comp
\* returns, with empty encoding and dropped constant columns too, one bound
\* column per column of comp_rep, in the order of comp_rep, holding the
\* minimum and maximum of that column of its parameter, followed by one column
\* per continuous parameter.
C20_BoundColumnPerCompRepColumn ==
    (ret.op = "param_bounds_comp" /\ d_parameters # <<>>) =>
        /\ ret.ok
        /\ Len(ret.val[1]) = Len(comp_rep.cols) + Len(c_parameters)
        /\ Len(ret.val[2]) = Len(comp_rep.cols) + Len(c_parameters)
        /\ \A k \in DOMAIN comp_rep.cols :
              LET vs == comp_df_column(column_owner(d_parameters, comp_rep.cols[k]),
                                       comp_rep.cols[k])
              IN ret.val[1][k] = SetMin(vs) /\ ret.val[2][k] = SetMax(vs)

\* C21: a mark_as_measured call that raises, for a missing column or for an
\* invalid value in any measurement row, a row after matched rows included,
\* leaves every flag of every row of metadata as it was.
C21_RaisingCallChangesNoFlag ==
    [][(phase = "discrete" /\ ret'.op = "mark_as_measured" /\ ~ret'.ok) =>
          /\ ret'.err = "ValueError"
          /\ metadata' = metadata]_vars

\* C21 witness: a batch whose first row (B, 19) matches the row (B, 20) and
\* whose second row holds the unknown label C was rejected, and the row
\* (B, 20) is not marked.
C21_Witness ==
    /\ ret.op = "mark_as_measured"
    /\ ~ret.ok
    /\ d_parameters = <<"Categorical_1", "Num_disc_1">>
    /\ Len(ret.measurements.rows) = 2
    /\ HasAllColumns(ret.measurements)
    /\ Recorded(ret.measurements.rows[1]) = <<2>>
    /\ ret.measurements.rows[2].vals["Categorical_1"] = "C"
    /\ ~RowAt(metadata, 2).vals["was_measured"]

\* Has the discrete subspace no numeric parameter?
NoNumericParameter == \A n \in SeqRange(d_parameters) : ~Param(n).is_numeric

\* The labels recorded for rows of a subspace without numeric parameter: for
\* every row in turn the first row that agrees on all categories, if any.
RECURSIVE CategoricalRecordedAll(_)
CategoricalRecordedAll(rows) ==
    IF rows = <<>> THEN <<>>
    ELSE LET hits == CategoricalMatches(Head(rows))
         IN (IF hits = {} THEN <<>> ELSE <<exp_rep.rows[SetMin(hits)].idx>>)
            \o CategoricalRecordedAll(Tail(rows))

\* C25: on a subspace without numeric parameter, a mark_as_measured call whose
\* rows hold domain values returns; a row whose categories match no row of
\* exp_rep records no index and changes no flag, the other rows record their
\* match.
C25_UnmatchedCategoricalRowIsSkipped ==
    [][(/\ phase = "discrete"
        /\ ret'.op = "mark_as_measured"
        /\ NoNumericParameter
        /\ HasAllColumns(ret'.measurements)
        /\ \A i \in DOMAIN ret'.measurements.rows : \A n \in SeqRange(d_parameters) :
              ret'.measurements.rows[i].vals[n] \in SeqRange(Param(n).values)) =>
          /\ ret'.ok
          /\ ret'.inds = CategoricalRecordedAll(ret'.measurements.rows)
          /\ \A i \in DOMAIN metadata.rows :
                metadata.rows[i].idx \notin SeqRange(ret'.inds) =>
                    metadata'.rows[i] = metadata.rows[i]]_vars

\* C25 witness: the constraint removed the row of category B, the measured
\* category B is a domain value, and the call returned with an empty index
\* and no row marked.
C25_Witness ==
    /\ ret.op = "mark_as_measured"
    /\ ret.ok
    /\ d_parameters = <<"Categorical_1">>
    /\ in_constraints = <<"ExclB">>
    /\ Len(exp_rep.rows) = 1
    /\ Len(ret.measurements.rows) = 1
    /\ ret.measurements.rows[1].vals["Categorical_1"] = "B"
    /\ ret.inds = <<>>
    /\ \A i \in DOMAIN metadata.rows : ~metadata.rows[i].vals["was_measured"]

\* C24: in every state of a discrete subspace, for the batches A and B of
\* OrderFrames that are valid with their tolerance flag: the indices matched
\* for A from the current metadata are the ones matched from fresh metadata;
\* marking A twice gives the metadata of marking A once; and marking A and
\* then B gives the metadata of marking B and then A.  For the batch of the
\* call that has just returned, the recorded indices are the ones matched
\* from fresh metadata, and marking it once more changes nothing.
C24_MarkingIsOrderIndependent ==
    phase = "discrete" =>
        LET Mark(md, b) == mark_as_measured(d_parameters, exp_rep, md, b[1], b[2])
            fresh   == initial_metadata(exp_rep)
            Batches == {b \in OrderFrames \X BOOLEAN : Mark(metadata, b).ok}
        IN /\ \A A \in Batches :
                 LET afterA == Mark(metadata, A).metadata IN
                 /\ Mark(metadata, A).inds = Mark(fresh, A).inds
                 /\ Mark(afterA, A).metadata = afterA
                 /\ \A B \in Batches :
                       Mark(afterA, B).metadata
                           = Mark(Mark(metadata, B).metadata, A).metadata
           /\ (ret.op = "mark_as_measured" /\ ret.ok) =>
                 LET last == <<ret.measurements, ret.tol>> IN
                 /\ Mark(fresh, last).inds = ret.inds
                 /\ Mark(metadata, last).metadata = metadata

\* C24 witness: after earlier marks, a call on the batch (A, 15), which two
\* rows match equally well, marked the first of them; a second row is marked
\* from an earlier call.
C24_Witness ==
    /\ ret.op = "mark_as_measured"
    /\ ret.ok
    /\ d_parameters = <<"Categorical_1", "Num_disc_1">>
    /\ Len(ret.measurements.rows) = 1
    /\ ret.measurements.rows[1].vals["Num_disc_1"] = 15
    /\ ret.inds = <<0>>
    /\ marked = {0, 2}
    /\ RowAt(metadata, 0).vals["was_measured"]
    /\ RowAt(metadata, 2).vals["was_measured"]

\* C22: a step that is a mark_as_measured call, returning or raising, leaves
\* was_recommended and dont_recommend of every row, the index of metadata,
\* exp_rep, comp_rep and the parameter list as they were; the only entries
\* of metadata that may differ are in was_measured.
C22_MarkingWritesOnlyWasMeasured ==
    [][(phase = "discrete" /\ ret'.op = "mark_as_measured") =>
          /\ Index(metadata') = Index(metadata)
          /\ metadata'.cols = metadata.cols
          /\ \A i \in DOMAIN metadata.rows :
                /\ metadata'.rows[i].vals["was_recommended"]
                       = metadata.rows[i].vals["was_recommended"]
                /\ metadata'.rows[i].vals["dont_recommend"]
                       = metadata.rows[i].vals["dont_recommend"]
          /\ exp_rep' = exp_rep
          /\ comp_rep' = comp_rep
          /\ parameters' = parameters
          /\ d_parameters' = d_parameters]_vars

\* C22 witness: a mark_as_measured call has returned; a row it marked is
\* neither recommended nor excluded, while an unmeasured row is recommended
\* and another unmeasured row is excluded.
C22_Witness ==
    /\ ret.op = "mark_as_measured"
    /\ ret.ok
    /\ \E i, j, k \in DOMAIN metadata.rows :
          /\ metadata.rows[i].idx \in marked
          /\ metadata.rows[i].vals["was_measured"]
          /\ ~metadata.rows[i].vals["was_recommended"]
          /\ ~metadata.rows[i].vals["dont_recommend"]
          /\ ~metadata.rows[j].vals["was_measured"]
          /\ metadata.rows[j].vals["was_recommended"]
          /\ ~metadata.rows[k].vals["was_measured"]
          /\ metadata.rows[k].vals["dont_recommend"]
          /\ ~metadata.rows[k].vals["was_recommended"]

\* C23: a step that is a get_candidates or transform call leaves metadata
\* (all three flag columns), exp_rep and comp_rep as they were.
C23_CandidatesAndTransformReadOnly ==
    [][(phase = "discrete" /\ ret'.op \in {"get_candidates", "transform"}) =>
          /\ metadata' = metadata
          /\ exp_rep' = exp_rep
          /\ comp_rep' = comp_rep]_vars

\* C23 witness: a get_candidates call without
\* allow_recommending_already_measured has dropped a measured row whose
\* dont_recommend flag is still False after the call, next to a row that is
\* excluded by its dont_recommend flag.
C23_Witness ==
    /\ ret.op = "get_candidates"
    /\ ~ret.allow_recommending_already_measured
    /\ ret.allow_repeated_recommendations
    /\ \E i, k \in DOMAIN metadata.rows :
          /\ metadata.rows[i].vals["was_measured"]
          /\ ~metadata.rows[i].vals["dont_recommend"]
          /\ metadata.rows[i].idx \notin Labels(ret.exp)
          /\ metadata.rows[k].vals["dont_recommend"]
          /\ ~metadata.rows[k].vals["was_measured"]
    /\ ret.exp.rows # <<>>

=============================================================================
